---- MODULE Spec2Model ----
(***************************************************************************)
(* Model of evals/dns_server.py: the TestDNSServer authoritative UDP DNS   *)
(* responder (zone store, query resolution, start/stop lifecycle and the   *)
(* background serve loop).                                                 *)
(*                                                                         *)
(* Strings that the code takes apart (zone names, query names) are         *)
(* sequences of one-character strings, so that lower(), endswith("."),     *)
(* split(".") and ".".join() are computed as the code computes them.       *)
(* Record values are tagged with isinstance(value, tuple) and hold their   *)
(* items as strings (integers such as an MX priority are written "10").    *)
(***************************************************************************)
EXTENDS Integers, Sequences, FiniteSets, TLC

(***************************************************************************)
(* Bounds of the model.                                                    *)
(***************************************************************************)
\* start() calls that get past the running check (each creates a socket).
MaxStarts == 2
\* The same, in the specification with scheduling assumptions.
LiveStarts == 1

(***************************************************************************)
(* Program constants.                                                      *)
(***************************************************************************)
\* _make_rr: ttl = 300
TTL == 300
\* the NXDOMAIN result code set by _handle_query
NXDOMAIN == 3
\* the result code of a freshly built DNSHeader
NOERROR == 0

(***************************************************************************)
(* Strings.                                                                *)
(***************************************************************************)
Dot == "."

\* str.lower() on one character of the model's alphabet.
LowerChar(c) ==
    CASE c = "A" -> "a"
      [] c = "S" -> "s"
      [] c = "T" -> "t"
      [] OTHER -> c

\* str.lower()
Lower(s) == [i \in 1..Len(s) |-> LowerChar(s[i])]

\* str.endswith(".")
EndsWithDot(s) == Len(s) > 0 /\ s[Len(s)] = Dot

\* Index of the first "." of s at or after position i, 0 when there is none.
RECURSIVE FindDot(_, _)
FindDot(s, i) ==
    IF i > Len(s) THEN 0
    ELSE IF s[i] = Dot THEN i
    ELSE FindDot(s, i + 1)

\* str.split("."): "x.a.t." gives <<"x", "a", "t", "">>.
RECURSIVE Split(_)
Split(s) ==
    LET d == FindDot(s, 1)
    IN  IF d = 0 THEN <<s>>
        ELSE <<SubSeq(s, 1, d - 1)>> \o Split(SubSeq(s, d + 1, Len(s)))

\* ".".join(parts)
RECURSIVE Join(_)
Join(parts) ==
    IF Len(parts) = 0 THEN <<>>
    ELSE IF Len(parts) = 1 THEN parts[1]
    ELSE parts[1] \o <<Dot>> \o Join(Tail(parts))

\* str(DNSLabel): the labels joined by "." and a trailing ".".
LabelStr(labels) == Join(labels) \o <<Dot>>

(***************************************************************************)
(* Zone store.                                                             *)
(***************************************************************************)
\* normalized = {}
EmptyZones == [k \in {} |-> <<>>]

\* A key that gets a dot appended whether or not the name ends in one.
NormalizeNameAlwaysDot(name) == Lower(Append(name, Dot))

\* The key _normalize_zones stores a zone under.
NormalizeName(name) ==
    Lower(IF EndsWithDot(name) THEN name ELSE Append(name, Dot))

\* _normalize_zones: raw is the caller's dict in insertion order, a sequence
\* of [name, records]; a later entry overwrites an earlier one with the same
\* normalized key.
RECURSIVE NormalizeZonesInto(_, _)
NormalizeZonesInto(raw, normalized) ==
    IF raw = <<>> THEN normalized
    ELSE NormalizeZonesInto(
             Tail(raw),
             (NormalizeName(Head(raw).name) :> Head(raw).records) @@ normalized)

NormalizeZones(raw) == NormalizeZonesInto(raw, EmptyZones)

(***************************************************************************)
(* Record values and resource records.                                     *)
(***************************************************************************)
\* A zone value that is a str.
Str(s) == [tuple |-> FALSE, items |-> <<s>>]
\* A zone value that is a tuple.
Tup(items) == [tuple |-> TRUE, items |-> items]

\* RR(name, QTYPE.<rtype>, rdata=..., ttl=...)
RR(name, rtype, rdata, ttl) ==
    [name |-> name, rtype |-> rtype, ttl |-> ttl, rdata |-> rdata]

\* _make_rr: an RR, None, or the exception the tuple unpacking of an MX
\* value raises ("priority, host = data" on a tuple that is no pair). The
\* dnslib constructors are taken to accept the value shapes the code hands
\* them.
MakeRR(name, qtype, data) ==
    CASE qtype \in {"A", "AAAA", "NS", "TXT", "CNAME"} ->
            [kind |-> "rr", rr |-> RR(name, qtype, data.items, TTL)]
      [] qtype = "MX" ->
            IF data.tuple
            THEN IF Len(data.items) = 2
                 THEN [kind |-> "rr",
                       rr |-> RR(name, "MX",
                                 <<data.items[2], data.items[1]>>, TTL)]
                 ELSE [kind |-> "raise"]
            ELSE [kind |-> "rr",
                  rr |-> RR(name, "MX", <<data.items[1], "10">>, TTL)]
      [] qtype = "SOA" ->
            IF data.tuple /\ Len(data.items) = 7
            THEN [kind |-> "rr", rr |-> RR(name, "SOA", data.items, TTL)]
            ELSE [kind |-> "None"]
      [] OTHER -> [kind |-> "None"]

(***************************************************************************)
(* Query resolution.                                                       *)
(***************************************************************************)
\* A datagram DNSRecord.parse rejects.
Garbage == [ok |-> FALSE, id |-> 0, qname |-> <<>>, qtype |-> ""]
\* A datagram that parses to one question.
Query(id, labels, qtype) ==
    [ok |-> TRUE, id |-> id, qname |-> labels, qtype |-> qtype]

\* A delegation loop without its break: the last parent found wins.
RECURSIVE WalkParentsNoBreak(_, _, _)
WalkParentsNoBreak(zs, parts, i) ==
    IF i >= Len(parts) THEN [found |-> FALSE]
    ELSE LET parent == Join(SubSeq(parts, i + 1, Len(parts)))
             later == WalkParentsNoBreak(zs, parts, i + 1)
         IN  IF later.found THEN later
             ELSE IF parent \in DOMAIN zs
                  THEN [found |-> TRUE, zone |-> zs[parent]]
                  ELSE [found |-> FALSE]

\* A delegation loop that ends at the root zone.
RECURSIVE WalkParentsToRoot(_, _, _)
WalkParentsToRoot(zs, parts, i) ==
    IF i >= Len(parts)
    THEN IF <<Dot>> \in DOMAIN zs
         THEN [found |-> TRUE, zone |-> zs[<<Dot>>]]
         ELSE [found |-> FALSE]
    ELSE LET parent == Join(SubSeq(parts, i + 1, Len(parts)))
         IN  IF parent \in DOMAIN zs
             THEN [found |-> TRUE, zone |-> zs[parent]]
             ELSE WalkParentsToRoot(zs, parts, i + 1)

\* The delegation loop: for i in range(1, len(parts)), first parent found.
RECURSIVE WalkParents(_, _, _)
WalkParents(zs, parts, i) ==
    IF i >= Len(parts) THEN [found |-> FALSE]
    ELSE LET parent == Join(SubSeq(parts, i + 1, Len(parts)))
         IN  IF parent \in DOMAIN zs
             THEN [found |-> TRUE, zone |-> zs[parent]]
             ELSE WalkParents(zs, parts, i + 1)

\* zone = self.zones.get(qname), then the parent zones.
LookupZone(zs, qname) ==
    IF qname \in DOMAIN zs
    THEN [found |-> TRUE, zone |-> zs[qname]]
    ELSE WalkParents(zs, Split(qname), 1)

\* zone.get(qtype, [])
ZoneGet(zone, qtype) == IF qtype \in DOMAIN zone THEN zone[qtype] ELSE <<>>

\* The CNAME loop: one CNAME answer per target.
CnameAnswers(qname, targets) ==
    [i \in 1..Len(targets) |-> RR(qname, "CNAME", targets[i].items, TTL)]

\* An answer loop that puts each answer in front of the earlier ones.
RECURSIVE AnswerLoopPrepends(_, _, _, _)
AnswerLoopPrepends(qname, qtype, records, answers) ==
    IF records = <<>> THEN [raised |-> FALSE, answers |-> answers]
    ELSE LET r == MakeRR(qname, qtype, Head(records))
         IN  IF r.kind = "raise" THEN [raised |-> TRUE, answers |-> answers]
             ELSE AnswerLoopPrepends(qname, qtype, Tail(records),
                                     IF r.kind = "rr" THEN <<r.rr>> \o answers
                                     ELSE answers)

\* The answer loop: _make_rr per record, None skipped, an exception leaves.
RECURSIVE AnswerLoop(_, _, _, _)
AnswerLoop(qname, qtype, records, answers) ==
    IF records = <<>> THEN [raised |-> FALSE, answers |-> answers]
    ELSE LET r == MakeRR(qname, qtype, Head(records))
         IN  IF r.kind = "raise" THEN [raised |-> TRUE, answers |-> answers]
             ELSE AnswerLoop(qname, qtype, Tail(records),
                             IF r.kind = "rr" THEN Append(answers, r.rr)
                             ELSE answers)

\* A reply header that announces recursion.
NewReplyRecursion(data) ==
    [id |-> data.id, qr |-> 1, aa |-> 1, ra |-> 1, rcode |-> NOERROR,
     q |-> [qname |-> data.qname, qtype |-> data.qtype],
     answers |-> <<>>]

\* DNSRecord(DNSHeader(id=request.header.id, qr=1, aa=1, ra=0), q=request.q)
NewReply(data) ==
    [id |-> data.id, qr |-> 1, aa |-> 1, ra |-> 0, rcode |-> NOERROR,
     q |-> [qname |-> data.qname, qtype |-> data.qtype],
     answers |-> <<>>]

\* reply.pack(): the bytes of a reply, never empty.
Pack(reply) == [kind |-> "bytes", msg |-> reply]

\* An answer step without the CNAME fallback.
AnswerFromNoFallback(reply, zone, qname, qtype) ==
    LET loop == AnswerLoop(qname, qtype, ZoneGet(zone, qtype), <<>>)
    IN  IF loop.raised THEN [kind |-> "raise"]
        ELSE Pack([reply EXCEPT !.answers = loop.answers])

\* An answer step that reports a zone without data of the type as NXDOMAIN.
AnswerFromEmptyIsNxdomain(reply, zone, qname, qtype) ==
    LET records == ZoneGet(zone, qtype)
    IN  IF records = <<>> /\ "CNAME" \in DOMAIN zone
        THEN Pack([reply EXCEPT
                     !.answers = CnameAnswers(qname, zone["CNAME"])])
        ELSE
          LET loop == AnswerLoop(qname, qtype, records, <<>>)
          IN  IF loop.raised THEN [kind |-> "raise"]
              ELSE IF loop.answers = <<>>
                   THEN Pack([reply EXCEPT !.rcode = NXDOMAIN])
                   ELSE Pack([reply EXCEPT !.answers = loop.answers])

\* An answer step that adds the CNAME values after the answers of the
\* requested type.
AnswerFromAddsCname(reply, zone, qname, qtype) ==
    LET loop == AnswerLoop(qname, qtype, ZoneGet(zone, qtype), <<>>)
    IN  IF loop.raised THEN [kind |-> "raise"]
        ELSE Pack([reply EXCEPT
                     !.answers = loop.answers \o
                                 CnameAnswers(qname, ZoneGet(zone, "CNAME"))])

\* The part of _handle_query after the zone is found: the records of the
\* requested type, the CNAME fallback, the answer loop.
AnswerFrom(reply, zone, qname, qtype) ==
    LET records == ZoneGet(zone, qtype)
    IN  IF records = <<>> /\ "CNAME" \in DOMAIN zone
        THEN Pack([reply EXCEPT
                     !.answers = CnameAnswers(qname, zone["CNAME"])])
        ELSE
          LET loop == AnswerLoop(qname, qtype, records, <<>>)
          IN  IF loop.raised THEN [kind |-> "raise"]
              ELSE Pack([reply EXCEPT !.answers = loop.answers])

\* A query name that keeps the case it was sent in.
QNameKeepsCase(data) == LabelStr(data.qname)

\* qname = str(request.q.qname).lower()
QName(data) == Lower(LabelStr(data.qname))

\* A resolution that answers NOERROR when no zone is found.
ResolveNoNxdomain(zs, data) ==
    LET look == LookupZone(zs, QName(data))
    IN  IF ~look.found
        THEN Pack(NewReply(data))
        ELSE AnswerFrom(NewReply(data), look.zone, QName(data), data.qtype)

\* A resolution whose answers carry the name of the zone they come from.
ResolveUnderZoneName(zs, data) ==
    LET qname == QName(data)
        qtype == data.qtype
        reply == NewReply(data)
        look  == LookupZone(zs, qname)
        RECURSIVE ParentName(_, _)
        ParentName(parts, i) ==
            LET parent == Join(SubSeq(parts, i + 1, Len(parts)))
            IN  IF i >= Len(parts) \/ parent \in DOMAIN zs THEN parent
                ELSE ParentName(parts, i + 1)
        owner == IF qname \in DOMAIN zs THEN qname
                 ELSE ParentName(Split(qname), 1)
    IN  IF ~look.found
        THEN Pack([reply EXCEPT !.rcode = NXDOMAIN])
        ELSE AnswerFrom(reply, look.zone, owner, qtype)

\* A resolution that follows a CNAME: after the CNAME answers come the
\* records of the requested type of each target that is a zone.
ResolveChasesCname(zs, data) ==
    LET qname == QName(data)
        qtype == data.qtype
        reply == NewReply(data)
        look  == LookupZone(zs, qname)
        RECURSIVE ChaseTargets(_)
        ChaseTargets(targets) ==
            IF targets = <<>> THEN <<>>
            ELSE LET name == Head(targets).items[1]
                     found == IF name \in DOMAIN zs
                              THEN AnswerLoop(name, qtype,
                                              ZoneGet(zs[name], qtype),
                                              <<>>).answers
                              ELSE <<>>
                 IN  found \o ChaseTargets(Tail(targets))
    IN  IF ~look.found
        THEN Pack([reply EXCEPT !.rcode = NXDOMAIN])
        ELSE IF ZoneGet(look.zone, qtype) = <<>> /\ "CNAME" \in DOMAIN look.zone
             THEN Pack([reply EXCEPT
                          !.answers =
                            CnameAnswers(qname, look.zone["CNAME"]) \o
                            ChaseTargets(look.zone["CNAME"])])
             ELSE AnswerFrom(reply, look.zone, qname, qtype)

\* _handle_query once the request is parsed.
Resolve(zs, data) ==
    LET qname == QName(data)
        qtype == data.qtype
        reply == NewReply(data)
        look  == LookupZone(zs, qname)
    IN  IF ~look.found
        THEN Pack([reply EXCEPT !.rcode = NXDOMAIN])
        ELSE AnswerFrom(reply, look.zone, qname, qtype)

\* A _handle_query that answers what it cannot parse.
HandleQueryAnswersGarbage(zs, data) ==
    IF ~data.ok THEN Pack(NewReply(data)) ELSE Resolve(zs, data)

\* _handle_query: None, the packed reply, or an exception.
HandleQuery(zs, data) ==
    IF ~data.ok THEN [kind |-> "None"] ELSE Resolve(zs, data)

(***************************************************************************)
(* The scorer dns_tool_used (scorers.py). A command string is the sequence *)
(* of its tokens: the separators " ", "|", ";", "&", "&&" and the words     *)
(* between them; a word holds no separator.                                *)
(***************************************************************************)
\* inspect_ai.scorer.CORRECT, INCORRECT, PARTIAL
CORRECT == "C"
INCORRECT == "I"
PARTIAL == "P"

\* str.lower() on a token.
LowerWord(t) ==
    CASE t = "DIG" -> "dig"
      [] t = "Doggo" -> "doggo"
      [] t = "Bash" -> "bash"
      [] t = "Read" -> "read"
      [] OTHER -> t

\* re.search(rf'(^|\||;|&&|\s){tool_lower}\s', command_str): the tool is a
\* word at the start of the command or right after "|", ";", "&&" or white
\* space, and white space follows it.
ReSearch(tool_lower, command_str) ==
    \E i \in 1..Len(command_str) :
      /\ command_str[i] = tool_lower
      /\ IF i = 1 THEN TRUE
         ELSE command_str[i - 1] \in {"|", ";", "&&", " "}
      /\ IF i = Len(command_str) THEN FALSE
         ELSE command_str[i + 1] = " "

\* check_tool_in_commands
CheckToolInCommands(commands, tool_name) ==
    \E k \in 1..Len(commands) :
      ReSearch(LowerWord(tool_name),
               [i \in 1..Len(commands[k].command) |->
                  LowerWord(commands[k].command[i])])

\* The commands of the content blocks of one assistant message: the
\* tool_use blocks of a bash, execute, run or shell tool.
RECURSIVE BlockCommands(_)
BlockCommands(content) ==
    IF content = <<>> THEN <<>>
    ELSE LET block == Head(content)
         IN  (IF /\ block.type = "tool_use"
                 /\ LowerWord(block.name) \in
                      {"bash", "execute", "run", "shell"}
              THEN <<[tool |-> block.name, command |-> block.command]>>
              ELSE <<>>) \o BlockCommands(Tail(content))

\* The loop over the messages of a list trace.
RECURSIVE MessageCommands(_)
MessageCommands(messages) ==
    IF messages = <<>> THEN <<>>
    ELSE (IF Head(messages).type = "assistant"
          THEN BlockCommands(Head(messages).content)
          ELSE <<>>) \o MessageCommands(Tail(messages))

\* extract_commands_from_trace: trace is None, a list of messages, or a dict
\* whose "messages" entry is such a list.
ExtractCommandsFromTrace(trace) ==
    CASE trace.kind = "None" -> <<>>
      [] trace.kind = "list" -> MessageCommands(trace.messages)
      [] trace.kind = "dict" ->
           IF trace.messages # <<>> THEN MessageCommands(trace.messages)
           ELSE <<>>

\* The Score dns_tool_used returns for the extracted commands.
DnsToolUsed(commands) ==
    LET used_doggo == CheckToolInCommands(commands, "doggo")
        used_dig == CheckToolInCommands(commands, "dig")
        used_nslookup == CheckToolInCommands(commands, "nslookup")
        used_host == CheckToolInCommands(commands, "host")
    IN  IF used_doggo THEN [value |-> CORRECT, answer |-> "doggo"]
        ELSE IF used_dig THEN [value |-> CORRECT, answer |-> "dig"]
        ELSE IF used_nslookup \/ used_host
             THEN [value |-> PARTIAL, answer |-> "other"]
             ELSE [value |-> INCORRECT, answer |-> "none"]

(***************************************************************************)
(* Inputs: zone configurations and datagrams.                              *)
(***************************************************************************)
\* One entry of the caller's zones dict.
Z(name, records) == [name |-> name, records |-> records]

SoaValue == Tup(<<"ns1", "admin", "1", "3600", "600", "86400", "300">>)

\* The shape of get_all_zones(): names without a trailing dot, a base
\* domain "t" with SOA and NS, and scenario zones below it.
CfgFixture ==
    << Z(<<"s", ".", "t">>,
         "A" :> <<Str("192.0.2.1")>> @@
         "TXT" :> <<Str("v=spf1 a"), Str("v=spf1 b")>>),
       Z(<<"c", ".", "t">>,
         "A" :> <<Str("192.0.2.10")>> @@
         "CNAME" :> <<Str(<<"t", "g", ".">>)>>),
       Z(<<"m", ".", "t">>,
         "A" :> <<Str("192.0.2.15")>> @@
         "MX" :> <<Tup(<<"10", "mail1">>), Tup(<<"20", "mail2">>)>>),
       Z(<<"t">>,
         "SOA" :> <<SoaValue>> @@
         "NS" :> <<Str("ns1.t."), Str("ns2.t.")>>) >>

\* Zones holding malformed values between well-formed ones.
CfgMalformed ==
    << Z(<<"m", ".", "t", ".">>,
         "MX" :> <<Tup(<<"10", "mail1">>), Tup(<<"1", "2", "3">>),
                   Str("mail3")>>),
       Z(<<"s", ".", "t", ".">>,
         "SOA" :> <<Tup(<<"ns1", "admin", "1">>), SoaValue>>) >>

\* Nested ancestors, a root zone, mixed-case keys, a CNAME whose target is
\* itself a zone, and a zone whose TXT and CNAME lists are empty.
CfgNested ==
    << Z(<<".">>, "A" :> <<Str("192.0.2.99")>>),
       Z(<<"T", ".">>, "A" :> <<Str("192.0.2.50")>>),
       Z(<<"A", ".", "t">>,
         "A" :> <<Str("192.0.2.51"), Str("192.0.2.52")>> @@
         "MX" :> <<Str("mail9")>>),
       Z(<<"c", ".", "t">>,
         "CNAME" :> <<Str(<<"a", ".", "t", ".">>),
                      Str(<<"s", ".", "t", ".">>)>>),
       Z(<<"s", ".", "t">>,
         "TXT" :> <<>> @@ "CNAME" :> <<>> @@
         "AAAA" :> <<Str("2001:db8::1")>>) >>

\* Only a root zone.
CfgRoot == << Z(<<".">>, "A" :> <<Str("192.0.2.99")>>) >>

\* Configurations the lifecycle specification is run with.
LifecycleConfigs == {CfgMalformed}
\* Configurations the resolver specification is run with.
ResolveConfigs == {CfgFixture, CfgMalformed, CfgNested, CfgRoot}

\* The addresses datagrams come from: each client numbers its queries with
\* its own message id.
Clients == {"c1", "c2"}
AddrOf(d) == IF d.id = 2 THEN "c2" ELSE "c1"

\* Datagrams of the lifecycle specification: garbage, an SOA query that is
\* answered, and an MX query that meets the malformed MX value of
\* CfgMalformed.
Datagrams ==
    {Garbage, Query(1, <<<<"s">>, <<"t">>>>, "SOA"),
     Query(2, <<<<"m">>, <<"t">>>>, "MX")}

\* Datagrams of the resolver specification.
QueryNames ==
    { <<>>, <<<<"t">>>>, <<<<"s">>, <<"t">>>>, <<<<"S">>, <<"T">>>>,
      <<<<"c">>, <<"t">>>>, <<<<"m">>, <<"t">>>>, <<<<"a">>, <<"t">>>>,
      <<<<"x">>, <<"a">>, <<"t">>>>, <<<<"x">>, <<"A">>, <<"t">>>>,
      <<<<"x">>, <<"c">>, <<"t">>>>, <<<<"x">>, <<"x">>>> }
QueryTypes == {"A", "AAAA", "NS", "MX", "TXT", "CNAME", "SOA", "SRV"}
MsgIds == {1, 2}
AllDatagrams ==
    {Garbage} \cup
    {Query(id, n, t) : id \in MsgIds, n \in QueryNames, t \in QueryTypes}

\* Command strings the scorer meets: the four tools followed by an
\* argument, in capitals, after "&&" and ";", a word that ends in a tool
\* name, and a tool name with nothing after it.
TraceCommands ==
    { <<"dig", " ", "x.t">>, <<"Doggo", " ", "x.t">>,
      <<"nslookup", " ", "x.t">>, <<"host", " ", "x.t">>,
      <<"cd", "&&", "DIG", " ", "x.t">>, <<"ls", ";", "host", " ", "x.t">>,
      <<"xdig", " ", "x.t">>, <<"dig">> }
\* Longest list of messages in a trace.
MaxMessages == 2
\* state.metadata.get("execution_trace"): None, a list of messages or a
\* dict of them. A message is an assistant's or a user's and holds one
\* content block: a use of a command tool or of another tool, or text.
Traces ==
    LET blocks ==
            {[type |-> "tool_use", name |-> n, command |-> c] :
               n \in {"Bash", "Read"}, c \in TraceCommands}
            \cup {[type |-> "text", name |-> "", command |-> <<>>]}
        messages ==
            {[type |-> t, content |-> <<b>>] :
               t \in {"assistant", "user"}, b \in blocks}
        lists == UNION {[1..n -> messages] : n \in 0..MaxMessages}
    IN  {[kind |-> "None", messages |-> <<>>]}
        \cup {[kind |-> k, messages |-> m] :
                k \in {"list", "dict"}, m \in lists}

(***************************************************************************)
(* State.                                                                  *)
(***************************************************************************)
VARIABLES
    zones,      \* self.zones
    running,    \* self._running
    sock,       \* self._socket: 0 is None, else a socket of sockets
    thread,     \* self._thread: 0 is None, else a thread of workers
    sockets,    \* the socket objects created so far
    nsock,      \* how many sockets were created
    nthreads,   \* how many threads were spawned
    workers,    \* the threads running _serve
    caller,     \* the embedding flow: where it is in start() or stop(),
                \* and where it is in a "with TestDNSServer(...)" block
    lastSent,   \* the latest reply sendto has put on the wire
    harness     \* the evaluation harness around the server: its module-
                \* level server handle and the scorer's run on a trace

vars == <<zones, running, sock, thread, sockets, nsock, nthreads, workers,
          caller, lastSent, harness>>

Threads == 1..MaxStarts
SocketIds == 1..MaxStarts

NoSocket == [state |-> "none", reuse |-> FALSE, timeout |-> FALSE]
NoResponse == [kind |-> "None"]
\* A thread that does not exist yet. pc is the thread's place in _serve
\* ("check": the loop test, "recv": about to call recvfrom, "blocked": inside
\* recvfrom on socket sk, "handle": holding data and addr, "send": holding
\* the response, "done": returned); outcome is how its latest iteration left
\* the loop body.
Unborn ==
    [pc |-> "unborn", sk |-> 0, data |-> Garbage, addr |-> "",
     resp |-> NoResponse, outcome |-> "-"]

\* Nothing was sent yet.
NothingSent ==
    [by |-> 0, via |-> 0, to |-> "", req |-> Garbage, msg |-> NewReply(Garbage)]

\* The harness before any of its calls: no server handle, nothing scored.
HarnessIdle ==
    [pc |-> "idle", server |-> "None", last |-> "none",
     trace |-> [kind |-> "None", messages |-> <<>>], commands |-> <<>>,
     score |-> [value |-> "", answer |-> ""]]

\* __init__
InitServer(configs) ==
    /\ zones \in {NormalizeZones(c) : c \in configs}
    /\ running = FALSE
    /\ sock = 0
    /\ thread = 0
    /\ sockets = [s \in SocketIds |-> NoSocket]
    /\ nsock = 0
    /\ nthreads = 0
    /\ workers = [w \in Threads |-> Unborn]
    /\ caller = [pc |-> "idle", result |-> "none", prev |-> "none",
                 scope |-> "none"]
    /\ lastSent = NothingSent

\* The server constructed by its user, the harness not involved.
InitWith(configs) == InitServer(configs) /\ harness = HarnessIdle

Init == InitWith(LifecycleConfigs)

(***************************************************************************)
(* start()                                                                 *)
(***************************************************************************)
Return(result) == caller' = [caller EXCEPT !.pc = "idle", !.result = result]
\* A call begins: the outcome of the call before it is kept in prev.
Call(pc) ==
    caller' = [caller EXCEPT !.pc = pc, !.result = "none",
                             !.prev = caller.result]
Goto(pc) == caller' = [caller EXCEPT !.pc = pc]

\* The caller calls start().
CallStart ==
    /\ caller.pc = "idle"
    /\ ~running => nsock < MaxStarts
    /\ Call("start_50")
    /\ UNCHANGED <<zones, running, sock, thread, sockets, nsock, nthreads,
                   workers, lastSent, harness>>

\* A start() whose running check is missing.
StartCheckMissing ==
    /\ caller.pc = "start_50"
    /\ Goto("start_53")
    /\ UNCHANGED <<zones, running, sock, thread, sockets, nsock, nthreads,
                   workers, lastSent, harness>>

\* if self._running: return
StartCheck ==
    /\ caller.pc = "start_50"
    /\ IF running THEN Return("noop") ELSE Goto("start_53")
    /\ UNCHANGED <<zones, running, sock, thread, sockets, nsock, nthreads,
                   workers, lastSent, harness>>

\* A start() that raises the running flag as soon as it has its socket.
StartSocketSetsRunning ==
    /\ caller.pc = "start_53"
    /\ nsock' = nsock + 1
    /\ sockets' = [sockets EXCEPT ![nsock + 1] =
                     [state |-> "open", reuse |-> TRUE, timeout |-> FALSE]]
    /\ sock' = nsock + 1
    /\ running' = TRUE
    /\ Goto("start_55")
    /\ UNCHANGED <<zones, thread, nthreads, workers, lastSent, harness>>

\* self._socket = socket.socket(...); setsockopt(SO_REUSEADDR)
StartSocket ==
    /\ caller.pc = "start_53"
    /\ nsock' = nsock + 1
    /\ sockets' = [sockets EXCEPT ![nsock + 1] =
                     [state |-> "open", reuse |-> TRUE, timeout |-> FALSE]]
    /\ sock' = nsock + 1
    /\ Goto("start_55")
    /\ UNCHANGED <<zones, running, thread, nthreads, workers, lastSent,
                   harness>>

\* self._socket.bind(...) succeeds.
StartBind ==
    /\ caller.pc = "start_55"
    /\ sockets' = [sockets EXCEPT ![sock].state = "bound"]
    /\ Goto("start_56")
    /\ UNCHANGED <<zones, running, sock, thread, nsock, nthreads, workers,
                   lastSent, harness>>

\* self._socket.bind(...) raises: the port is unavailable. The exception
\* leaves start(); nothing in start() closes or clears the socket.
StartBindFails ==
    /\ caller.pc = "start_55"
    /\ Return("BindFailure")
    /\ UNCHANGED <<zones, running, sock, thread, sockets, nsock, nthreads,
                   workers, lastSent, harness>>

\* self._socket.settimeout(0.5)
StartSetTimeout ==
    /\ caller.pc = "start_56"
    /\ sockets' = [sockets EXCEPT ![sock].timeout = TRUE]
    /\ Goto("start_58")
    /\ UNCHANGED <<zones, running, sock, thread, nsock, nthreads, workers,
                   lastSent, harness>>

\* self._running = True
StartSetRunning ==
    /\ caller.pc = "start_58"
    /\ running' = TRUE
    /\ Goto("start_59")
    /\ UNCHANGED <<zones, sock, thread, sockets, nsock, nthreads, workers,
                   lastSent, harness>>

\* A start() that spawns no thread while a thread reference is kept.
StartSpawnUnlessKept ==
    /\ caller.pc = "start_59"
    /\ nthreads' = IF thread = 0 THEN nthreads + 1 ELSE nthreads
    /\ thread' = IF thread = 0 THEN nthreads + 1 ELSE thread
    /\ workers' = IF thread = 0
                  THEN [workers EXCEPT ![nthreads + 1].pc = "check"]
                  ELSE workers
    /\ Return("started")
    /\ UNCHANGED <<zones, running, sock, sockets, nsock, lastSent, harness>>

\* self._thread = threading.Thread(target=self._serve); self._thread.start()
StartSpawn ==
    /\ caller.pc = "start_59"
    /\ nthreads' = nthreads + 1
    /\ thread' = nthreads + 1
    /\ workers' = [workers EXCEPT ![nthreads + 1].pc = "check"]
    /\ Return("started")
    /\ UNCHANGED <<zones, running, sock, sockets, nsock, lastSent, harness>>

(***************************************************************************)
(* stop()                                                                  *)
(***************************************************************************)
\* The caller calls stop().
CallStop ==
    /\ caller.pc = "idle"
    /\ Call("stop_64")
    /\ UNCHANGED <<zones, running, sock, thread, sockets, nsock, nthreads,
                   workers, lastSent, harness>>

\* self._running = False
StopClearRunning ==
    /\ caller.pc = "stop_64"
    /\ running' = FALSE
    /\ Goto("stop_65")
    /\ UNCHANGED <<zones, sock, thread, sockets, nsock, nthreads, workers,
                   lastSent, harness>>

\* if self._thread: self._thread.join(timeout=2) -- there is no thread, or
\* the thread has exited.
StopJoin ==
    /\ caller.pc = "stop_65"
    /\ IF thread = 0 THEN TRUE ELSE workers[thread].pc = "done"
    /\ Goto("stop_67")
    /\ UNCHANGED <<zones, running, sock, thread, sockets, nsock, nthreads,
                   workers, lastSent, harness>>

\* A stop() that gives up when the join times out.
StopJoinTimeoutGivesUp ==
    /\ caller.pc = "stop_65"
    /\ IF thread = 0 THEN FALSE ELSE workers[thread].pc # "done"
    /\ Return("stopped")
    /\ UNCHANGED <<zones, running, sock, thread, sockets, nsock, nthreads,
                   workers, lastSent, harness>>

\* self._thread.join(timeout=2) returns after the timeout, the thread
\* still alive.
StopJoinTimeout ==
    /\ caller.pc = "stop_65"
    /\ IF thread = 0 THEN FALSE ELSE workers[thread].pc # "done"
    /\ Goto("stop_67")
    /\ UNCHANGED <<zones, running, sock, thread, sockets, nsock, nthreads,
                   workers, lastSent, harness>>

\* A stop() that closes without testing self._socket: on None the call
\* raises AttributeError.
StopCloseUnguarded ==
    /\ caller.pc = "stop_67"
    /\ IF sock # 0
       THEN /\ sockets' = [sockets EXCEPT ![sock].state = "closed"]
            /\ Goto("stop_69")
       ELSE /\ sockets' = sockets
            /\ Return("AttributeError")
    /\ UNCHANGED <<zones, running, sock, thread, nsock, nthreads, workers,
                   lastSent, harness>>

\* if self._socket: self._socket.close()
StopClose ==
    /\ caller.pc = "stop_67"
    /\ IF sock # 0
       THEN /\ sockets' = [sockets EXCEPT ![sock].state = "closed"]
            /\ Goto("stop_69")
       ELSE /\ sockets' = sockets
            /\ Return("stopped")
    /\ UNCHANGED <<zones, running, sock, thread, nsock, nthreads, workers,
                   lastSent, harness>>

\* self._socket = None
StopClearSocket ==
    /\ caller.pc = "stop_69"
    /\ sock' = 0
    /\ Return("stopped")
    /\ UNCHANGED <<zones, running, thread, sockets, nsock, nthreads, workers,
                   lastSent, harness>>

(***************************************************************************)
(* _serve()                                                                *)
(***************************************************************************)
\* The thread is back at the loop test with this iteration's outcome.
Loop(w, outcome) ==
    workers' = [workers EXCEPT ![w] =
                  [pc |-> "check", sk |-> 0, data |-> Garbage, addr |-> "",
                   resp |-> NoResponse, outcome |-> outcome]]

\* A loop test that never sees the flag cleared.
ServeCheckIgnoresFlag(w) ==
    /\ workers[w].pc = "check"
    /\ workers' = [workers EXCEPT ![w].pc = "recv", ![w].outcome = "-"]
    /\ UNCHANGED <<zones, running, sock, thread, sockets, nsock, nthreads,
                   caller, lastSent, harness>>

\* while self._running:
ServeCheck(w) ==
    /\ workers[w].pc = "check"
    /\ workers' = [workers EXCEPT
                     ![w].pc = IF running THEN "recv" ELSE "done",
                     ![w].outcome = "-"]
    /\ UNCHANGED <<zones, running, sock, thread, sockets, nsock, nthreads,
                   caller, lastSent, harness>>

\* self._socket.recvfrom(512) is called: on None and on a closed socket it
\* raises, which "except Exception: continue" swallows.
ServeRecvCall(w) ==
    /\ workers[w].pc = "recv"
    /\ IF sock = 0 \/ sockets[sock].state = "closed"
       THEN Loop(w, "recv_error")
       ELSE workers' = [workers EXCEPT ![w].pc = "blocked", ![w].sk = sock]
    /\ UNCHANGED <<zones, running, sock, thread, sockets, nsock, nthreads,
                   caller, lastSent, harness>>

\* recvfrom returns one of the datagrams of inputs and its sender.
ServeRecvData(w, inputs) ==
    /\ workers[w].pc = "blocked"
    /\ sockets[workers[w].sk].state = "bound"
    /\ \E d \in inputs :
         workers' = [workers EXCEPT ![w].pc = "handle", ![w].data = d,
                                    ![w].addr = AddrOf(d)]
    /\ UNCHANGED <<zones, running, sock, thread, sockets, nsock, nthreads,
                   caller, lastSent, harness>>

\* recvfrom raises socket.timeout.
ServeRecvTimeout(w) ==
    /\ workers[w].pc = "blocked"
    /\ sockets[workers[w].sk].timeout
    /\ Loop(w, "timeout")
    /\ UNCHANGED <<zones, running, sock, thread, sockets, nsock, nthreads,
                   caller, lastSent, harness>>

\* A serve loop that drops the socket handle when recvfrom fails.
ServeRecvErrorDropsSocket(w) ==
    /\ workers[w].pc = "blocked"
    /\ sockets[workers[w].sk].state = "closed"
    /\ Loop(w, "recv_error")
    /\ sock' = 0
    /\ UNCHANGED <<zones, running, thread, sockets, nsock, nthreads,
                   caller, lastSent, harness>>

\* recvfrom raises OSError: the socket was closed under it.
ServeRecvError(w) ==
    /\ workers[w].pc = "blocked"
    /\ sockets[workers[w].sk].state = "closed"
    /\ Loop(w, "recv_error")
    /\ UNCHANGED <<zones, running, sock, thread, sockets, nsock, nthreads,
                   caller, lastSent, harness>>

\* A serve loop without "except Exception": an exception of _handle_query
\* ends the thread.
ServeHandleUncaught(w) ==
    /\ workers[w].pc = "handle"
    /\ LET r == HandleQuery(zones, workers[w].data)
       IN  CASE r.kind = "None" -> Loop(w, "dropped")
             [] r.kind = "raise" ->
                  workers' = [workers EXCEPT ![w].pc = "done"]
             [] OTHER -> workers' = [workers EXCEPT ![w].pc = "send",
                                                    ![w].resp = r]
    /\ UNCHANGED <<zones, running, sock, thread, sockets, nsock, nthreads,
                   caller, lastSent, harness>>

\* A handler that remembers under the query's name the ancestor zone it
\* answered from.
ServeHandleCaches(w) ==
    /\ workers[w].pc = "handle"
    /\ LET r == HandleQuery(zones, workers[w].data)
       IN  CASE r.kind = "None" -> Loop(w, "dropped")
             [] r.kind = "raise" -> Loop(w, "handle_error")
             [] OTHER -> workers' = [workers EXCEPT ![w].pc = "send",
                                                    ![w].resp = r]
    /\ zones' = IF workers[w].data.ok
                   /\ LookupZone(zones, QName(workers[w].data)).found
                THEN (QName(workers[w].data) :>
                        LookupZone(zones, QName(workers[w].data)).zone) @@ zones
                ELSE zones
    /\ UNCHANGED <<running, sock, thread, sockets, nsock, nthreads,
                   caller, lastSent, harness>>

\* response = self._handle_query(data); if response: ...
ServeHandle(w) ==
    /\ workers[w].pc = "handle"
    /\ LET r == HandleQuery(zones, workers[w].data)
       IN  CASE r.kind = "None" -> Loop(w, "dropped")
             [] r.kind = "raise" -> Loop(w, "handle_error")
             [] OTHER -> workers' = [workers EXCEPT ![w].pc = "send",
                                                    ![w].resp = r]
    /\ UNCHANGED <<zones, running, sock, thread, sockets, nsock, nthreads,
                   caller, lastSent, harness>>

\* A send that answers the first client whoever asked.
ServeSendToFirstClient(w) ==
    /\ workers[w].pc = "send"
    /\ IF sock = 0 \/ sockets[sock].state = "closed"
       THEN /\ Loop(w, "send_error")
            /\ lastSent' = lastSent
       ELSE /\ Loop(w, "sent")
            /\ lastSent' = [by |-> w, via |-> sock, to |-> "c1",
                            req |-> workers[w].data,
                            msg |-> workers[w].resp.msg]
    /\ UNCHANGED <<zones, running, sock, thread, sockets, nsock, nthreads,
                   caller, harness>>

\* self._socket.sendto(response, addr): on None and on a closed socket it
\* raises.
ServeSend(w) ==
    /\ workers[w].pc = "send"
    /\ IF sock = 0 \/ sockets[sock].state = "closed"
       THEN /\ Loop(w, "send_error")
            /\ lastSent' = lastSent
       ELSE /\ Loop(w, "sent")
            /\ lastSent' = [by |-> w, via |-> sock, to |-> workers[w].addr,
                            req |-> workers[w].data,
                            msg |-> workers[w].resp.msg]
    /\ UNCHANGED <<zones, running, sock, thread, sockets, nsock, nthreads,
                   caller, harness>>

\* sendto raises OSError on an open socket.
ServeSendFails(w) ==
    /\ workers[w].pc = "send"
    /\ IF sock = 0 THEN FALSE ELSE sockets[sock].state # "closed"
    /\ Loop(w, "send_error")
    /\ UNCHANGED <<zones, running, sock, thread, sockets, nsock, nthreads,
                   caller, lastSent, harness>>

(***************************************************************************)
(* __enter__ and __exit__: "with TestDNSServer(...) as server: body"       *)
(***************************************************************************)
\* caller.scope is the caller's place in a with block: "none" before the
\* first one, "enter" inside __enter__, "body" in the block, "exit_normal"
\* and "exit_raised" inside __exit__ after a body that completed or raised,
\* "left_normal" and "left_raised" once the statement is left, and
\* "not_entered" when __enter__ raised (the body and __exit__ do not run).
OutsideWith == {"none", "left_normal", "left_raised", "not_entered"}

\* The with statement calls __enter__, which calls start().
EnterCall ==
    /\ caller.pc = "idle"
    /\ caller.scope \in OutsideWith
    /\ ~running => nsock < MaxStarts
    /\ caller' = [pc |-> "start_50", result |-> "none",
                  prev |-> caller.result, scope |-> "enter"]
    /\ UNCHANGED <<zones, running, sock, thread, sockets, nsock, nthreads,
                   workers, lastSent, harness>>

\* __enter__ returns self and the body begins, or the exception of start()
\* leaves the with statement.
EnterReturn ==
    /\ caller.pc = "idle"
    /\ caller.scope = "enter"
    /\ caller' = [caller EXCEPT !.scope = IF caller.result = "BindFailure"
                                          THEN "not_entered" ELSE "body"]
    /\ UNCHANGED <<zones, running, sock, thread, sockets, nsock, nthreads,
                   workers, lastSent, harness>>

\* A with statement that runs __exit__ only after a body that completed.
ExitCallSkipsOnRaise(how) ==
    /\ caller.pc = "idle"
    /\ caller.scope = "body"
    /\ caller' = IF how = "raised"
                 THEN [caller EXCEPT !.scope = "left_raised"]
                 ELSE [pc |-> "stop_64", result |-> "none",
                       prev |-> caller.result, scope |-> "exit_normal"]
    /\ UNCHANGED <<zones, running, sock, thread, sockets, nsock, nthreads,
                   workers, lastSent, harness>>

\* The body completes or raises: the with statement calls __exit__, which
\* calls stop().
ExitCall(how) ==
    /\ caller.pc = "idle"
    /\ caller.scope = "body"
    /\ caller' = [pc |-> "stop_64", result |-> "none",
                  prev |-> caller.result,
                  scope |-> IF how = "raised" THEN "exit_raised"
                            ELSE "exit_normal"]
    /\ UNCHANGED <<zones, running, sock, thread, sockets, nsock, nthreads,
                   workers, lastSent, harness>>

\* __exit__ returns None: the statement is left, an exception of the body
\* propagating.
ExitReturn ==
    /\ caller.pc = "idle"
    /\ caller.scope \in {"exit_normal", "exit_raised"}
    /\ caller' = [caller EXCEPT !.scope = IF caller.scope = "exit_raised"
                                          THEN "left_raised"
                                          ELSE "left_normal"]
    /\ UNCHANGED <<zones, running, sock, thread, sockets, nsock, nthreads,
                   workers, lastSent, harness>>

(***************************************************************************)
(* The scorer's run: score(state, target) of dns_tool_used.                *)
(***************************************************************************)
\* commands = extract_commands_from_trace(trace)
ScoreExtract ==
    /\ harness.pc = "score_105"
    /\ harness' = [harness EXCEPT
                     !.pc = "score_107",
                     !.commands = ExtractCommandsFromTrace(harness.trace)]
    /\ UNCHANGED <<zones, running, sock, thread, sockets, nsock, nthreads,
                   workers, caller, lastSent>>

\* The checks for the four tools and the Score returned.
ScoreReturn ==
    /\ harness.pc = "score_107"
    /\ harness' = [harness EXCEPT
                     !.pc = "scored",
                     !.score = DnsToolUsed(harness.commands)]
    /\ UNCHANGED <<zones, running, sock, thread, sockets, nsock, nthreads,
                   workers, caller, lastSent>>

(***************************************************************************)
(* The harness's server handle (dns_skill_eval.py): start_dns_server() and *)
(* stop_dns_server() around the module-level _server. Each server the      *)
(* harness constructs is a new object: running, sock and thread are the    *)
(* fields of the latest one, and a thread of an earlier one that is still  *)
(* alive reads the fields of its own object, which stop() left cleared.    *)
(***************************************************************************)
\* start_dns_server(): if _server is None, construct the server, assign it
\* to _server and call its start(); otherwise nothing.
StartDnsServer ==
    /\ harness.pc = "idle"
    /\ caller.pc = "idle"
    /\ IF harness.server = "None"
       THEN /\ nsock < MaxStarts
            /\ harness' = [harness EXCEPT !.server = "TestDNSServer",
                                          !.pc = "start_119",
                                          !.last = "none"]
            /\ running' = FALSE
            /\ sock' = 0
            /\ thread' = 0
            /\ Call("start_50")
       ELSE /\ harness' = [harness EXCEPT !.last = "kept"]
            /\ UNCHANGED <<running, sock, thread, caller>>
    /\ UNCHANGED <<zones, sockets, nsock, nthreads, workers, lastSent>>

\* _server.start() returns, or its exception leaves start_dns_server().
StartDnsServerReturn ==
    /\ harness.pc = "start_119"
    /\ caller.pc = "idle"
    /\ harness' = [harness EXCEPT !.pc = "idle", !.last = caller.result]
    /\ UNCHANGED <<zones, running, sock, thread, sockets, nsock, nthreads,
                   workers, caller, lastSent>>

\* stop_dns_server(): if _server is not None, call its stop(); otherwise
\* nothing.
StopDnsServer ==
    /\ harness.pc = "idle"
    /\ caller.pc = "idle"
    /\ IF harness.server # "None"
       THEN /\ harness' = [harness EXCEPT !.pc = "stop_126",
                                          !.last = "none"]
            /\ Call("stop_64")
       ELSE /\ harness' = [harness EXCEPT !.last = "nothing"]
            /\ caller' = caller
    /\ UNCHANGED <<zones, running, sock, thread, sockets, nsock, nthreads,
                   workers, lastSent>>

\* _server.stop() returns; _server = None.
StopDnsServerReturn ==
    /\ harness.pc = "stop_126"
    /\ caller.pc = "idle"
    /\ harness' = [harness EXCEPT !.pc = "idle", !.server = "None",
                                  !.last = caller.result]
    /\ UNCHANGED <<zones, running, sock, thread, sockets, nsock, nthreads,
                   workers, caller, lastSent>>

\* A thread of an earlier server object at its loop test: the flag of its
\* object is cleared.
OrphanCheck(w) ==
    /\ w # thread
    /\ workers[w].pc = "check"
    /\ workers' = [workers EXCEPT ![w].pc = "done", ![w].outcome = "-"]
    /\ UNCHANGED <<zones, running, sock, thread, sockets, nsock, nthreads,
                   caller, lastSent, harness>>

\* A thread of an earlier server object calls recvfrom: the socket handle
\* of its object is None.
OrphanRecvCall(w) ==
    /\ w # thread
    /\ workers[w].pc = "recv"
    /\ Loop(w, "recv_error")
    /\ UNCHANGED <<zones, running, sock, thread, sockets, nsock, nthreads,
                   caller, lastSent, harness>>

\* A thread of an earlier server object calls sendto: the socket handle of
\* its object is None.
OrphanSend(w) ==
    /\ w # thread
    /\ workers[w].pc = "send"
    /\ Loop(w, "send_error")
    /\ UNCHANGED <<zones, running, sock, thread, sockets, nsock, nthreads,
                   caller, lastSent, harness>>

(***************************************************************************)
(* Specifications.                                                         *)
(***************************************************************************)
Start ==
    \/ CallStart \/ StartCheck \/ StartSocket \/ StartBind
    \/ StartBindFails \/ StartSetTimeout \/ StartSetRunning \/ StartSpawn

Stop ==
    \/ CallStop \/ StopClearRunning \/ StopJoin \/ StopJoinTimeout
    \/ StopClose \/ StopClearSocket

Serve(w, inputs) ==
    \/ ServeCheck(w) \/ ServeRecvCall(w) \/ ServeRecvData(w, inputs)
    \/ ServeRecvTimeout(w) \/ ServeRecvError(w) \/ ServeHandle(w)
    \/ ServeSend(w) \/ ServeSendFails(w)

Next == Start \/ Stop \/ \E w \in Threads : Serve(w, Datagrams)

Spec == Init /\ [][Next]_vars

\* The resolver under every configuration and query: one start(), then the
\* serve loop.
InitResolve == InitWith(ResolveConfigs)

NextResolve ==
    \/ CallStart /\ nsock = 0
    \/ StartCheck \/ StartSocket \/ StartBind \/ StartSetTimeout
    \/ StartSetRunning \/ StartSpawn
    \/ \E w \in Threads :
         \/ ServeCheck(w) \/ ServeRecvCall(w)
         \/ ServeRecvData(w, AllDatagrams)
         \/ ServeRecvTimeout(w) \/ ServeHandle(w) \/ ServeSend(w)

SpecResolve == InitResolve /\ [][NextResolve]_vars

\* The steps inside start() and stop(), whoever called them.
StartSteps ==
    \/ StartCheck \/ StartSocket \/ StartBind \/ StartBindFails
    \/ StartSetTimeout \/ StartSetRunning \/ StartSpawn
StopSteps ==
    \/ StopClearRunning \/ StopJoin \/ StopJoinTimeout \/ StopClose
    \/ StopClearSocket

\* The lifecycle with the scheduling of the threads: a thread that is at the
\* loop test, about to call recvfrom or sendto, or inside a recvfrom that can
\* time out or fail, eventually takes that step. Nothing is assumed of the
\* caller, who may stop calling, or stop inside start() or stop(), nor of a
\* recvfrom on a socket without a timeout, nor of the handling of a datagram.
ServeFair ==
    \A w \in Threads :
      /\ WF_vars(ServeCheck(w))
      /\ WF_vars(ServeRecvCall(w))
      /\ WF_vars(ServeRecvTimeout(w))
      /\ WF_vars(ServeRecvError(w))
      /\ WF_vars(ServeSend(w))

NextLive ==
    \/ CallStart /\ (~running => nsock < LiveStarts)
    \/ StartSteps \/ Stop
    \/ \E w \in Threads : Serve(w, Datagrams)

SpecLive == Init /\ [][NextLive]_vars /\ ServeFair

\* The server used through with statements only: __enter__ starts it, the
\* threads serve while the body runs, and __exit__ stops it.
ScopedConfigs == {CfgFixture, CfgNested}
\* A query answered from an ancestor zone and one answered by the CNAME
\* fallback, next to a datagram that does not parse.
ScopedDatagrams ==
    {Garbage, Query(1, <<<<"x">>, <<"a">>, <<"t">>>>, "A"),
     Query(2, <<<<"c">>, <<"t">>>>, "MX")}

InitScoped == InitWith(ScopedConfigs)

NextScoped ==
    \/ EnterCall \/ EnterReturn
    \/ \E how \in {"completed", "raised"} : ExitCall(how)
    \/ ExitReturn
    \/ StartSteps \/ StopSteps
    \/ \E w \in Threads : Serve(w, ScopedDatagrams)

SpecScoped == InitScoped /\ [][NextScoped]_vars

\* The scorer run on every trace.
InitScorer ==
    /\ InitServer(LifecycleConfigs)
    /\ harness \in {[HarnessIdle EXCEPT !.pc = "score_105", !.trace = t] :
                     t \in Traces}

NextScorer == ScoreExtract \/ ScoreReturn

SpecScorer == InitScorer /\ [][NextScorer]_vars

\* The server used through the harness's singleton only. The thread of
\* the latest server object takes the steps of _serve on that object's
\* fields; a thread of an earlier object, alive because a join timed out,
\* takes them on the cleared fields of its own.
NextHarness ==
    \/ StartDnsServer \/ StartDnsServerReturn
    \/ StopDnsServer \/ StopDnsServerReturn
    \/ StartSteps \/ StopSteps
    \/ \E w \in Threads :
         \/ w = thread /\ Serve(w, Datagrams)
         \/ OrphanCheck(w) \/ OrphanRecvCall(w) \/ OrphanSend(w)
         \/ w # thread /\ (ServeRecvTimeout(w) \/ ServeRecvError(w)
                            \/ ServeHandle(w))

SpecHarness == Init /\ [][NextHarness]_vars

(***************************************************************************)
(* Properties of the lifecycle.                                            *)
(***************************************************************************)
\* The thread was started and has not left _serve.
Live(w) == workers[w].pc \in {"check", "recv", "blocked", "handle", "send"}
\* The thread is inside the body of the serve loop, past a loop test that
\* found the running flag set.
InLoopBody(w) == workers[w].pc \in {"recv", "blocked", "handle", "send"}
\* The caller is inside stop().
InStop == caller.pc \in {"stop_64", "stop_65", "stop_67", "stop_69"}
\* The server is stopped: the flag is clear and no socket handle is held.
Stopped == ~running /\ sock = 0

\* C1: exactly one background worker services the socket -- in no reachable
\* state are two threads of the server live in the serve loop, whatever the
\* sequence of start() and stop() calls, a stop() whose join timed out
\* included.
C1_AtMostOneWorkerInLoop ==
    Cardinality({w \in Threads : InLoopBody(w)}) <= 1

\* C2: start() on a running server is a no-op -- every step of a start()
\* that finds the running flag set returns at once and leaves the flag, the
\* socket handle, the thread and the sockets as they are: no socket is
\* created or bound and no thread is spawned.
C2_StartIdempotent ==
    [][(caller.pc = "start_50" /\ running /\ caller' # caller)
         => /\ caller'.pc = "idle"
            /\ caller'.result = "noop"
            /\ UNCHANGED <<running, sock, thread, sockets, nsock, nthreads>>
      ]_vars

\* A start() on a running server has returned.
C2_StartOnRunningReturned ==
    /\ caller.pc = "idle"
    /\ caller.result = "noop"
    /\ running
    /\ \E w \in Threads : Live(w)

\* C3: stop() on a stopped server is a no-op -- from its call to its return
\* no step of it changes the running flag, the socket handle, the thread or
\* any socket (nothing is closed again), and it raises nothing.
C3_StopIdempotent ==
    [][(Stopped /\ (InStop \/ caller'.pc = "stop_64"))
         => /\ UNCHANGED <<running, sock, thread, sockets>>
            /\ caller'.result \in {"none", "stopped"}
            /\ caller'.pc \in {"idle", "stop_64", "stop_65", "stop_67"}
      ]_vars

\* A second stop() has returned after the stop() that ended a session.
C3_StopAfterStopReturned ==
    /\ caller.pc = "idle"
    /\ caller.result = "stopped"
    /\ caller.prev = "stopped"
    /\ nthreads > 0
    /\ Stopped

\* C4: when stop() returns, the running flag is false, the socket the server
\* held is closed and the handle is cleared, whether the join returned
\* because the thread had exited or because it timed out.
C4_StopReleases ==
    [][(InStop /\ caller'.pc = "idle")
         => /\ ~running'
            /\ sock' = 0
            /\ IF sock = 0 THEN TRUE ELSE sockets'[sock].state = "closed"
      ]_vars

\* stop() has returned on a started server whose thread outlived the join.
C4_StoppedWhileWorkerLive ==
    /\ caller.pc = "idle"
    /\ caller.result = "stopped"
    /\ thread # 0
    /\ IF thread = 0 THEN FALSE ELSE Live(thread)
    /\ Stopped
    /\ \E s \in SocketIds : sockets[s].state = "closed"

\* C5: a thread leaves the serve loop only at the loop test and only when
\* the running flag is clear; no datagram, exception or timeout ends it.
C5_LoopSurvivesBadInput ==
    [][\A w \in Threads :
         (Live(w) /\ workers'[w].pc \notin
                       {"check", "recv", "blocked", "handle", "send"})
           => /\ ~running
              /\ workers[w].pc = "check"
              /\ workers'[w].pc = "done"
      ]_vars

\* A thread is back at the loop test of a running server after the handling
\* of a query raised.
C5_SurvivedHandleError ==
    \E w \in Threads :
      /\ workers[w].pc = "check"
      /\ workers[w].outcome = "handle_error"
      /\ running

(***************************************************************************)
(* Properties of query handling.                                           *)
(***************************************************************************)
\* The value shapes of the record types: a string for A, AAAA, NS, CNAME and
\* TXT, a (priority, host) pair or a bare host for MX, a 7-tuple for SOA.
WellFormed(qtype, v) ==
    CASE qtype \in {"A", "AAAA", "NS", "CNAME", "TXT"} -> ~v.tuple
      [] qtype = "MX" -> ~v.tuple \/ Len(v.items) = 2
      [] qtype = "SOA" -> v.tuple /\ Len(v.items) = 7
      [] OTHER -> FALSE

\* A configured value in the shape of its type: a bare MX host is the pair
\* with the default priority 10.
Canonical(qtype, v) ==
    IF qtype = "MX" /\ ~v.tuple THEN Tup(<<"10", v.items[1]>>) ELSE v

\* The configured value an answer record carries.
ValueOf(rr) ==
    CASE rr.rtype = "MX" -> Tup(<<rr.rdata[2], rr.rdata[1]>>)
      [] rr.rtype = "SOA" -> Tup(rr.rdata)
      [] OTHER -> Str(rr.rdata[1])

\* The answers are the values, one answer per value in the same order, each
\* of the given type, under the given owner name and with TTL 300.
AnswersAre(answers, qname, qtype, values) ==
    /\ Len(answers) = Len(values)
    /\ \A i \in 1..Len(values) :
         /\ answers[i].name = qname
         /\ answers[i].rtype = qtype
         /\ answers[i].ttl = 300
         /\ ValueOf(answers[i]) = Canonical(qtype, values[i])

\* The values among records that are well-formed for the type.
ValidOnly(qtype, records) ==
    SelectSeq(records, LAMBDA v : WellFormed(qtype, v))

\* The datagram is a query for a zone of the store by its exact name.
ExactZone(d) == d.ok /\ QName(d) \in DOMAIN zones
\* The records the store holds for the query's name and type.
RecordsFor(d) == ZoneGet(zones[QName(d)], d.qtype)

\* A reply was sent.
Replied == lastSent.by # 0

\* The thread w, handling a datagram, takes its step.
Handles(w) == workers[w].pc = "handle" /\ workers'[w] # workers[w]

\* C6: a malformed SOA or MX value among the records of the requested type
\* is skipped alone -- the query is answered and the reply carries the
\* well-formed records, in stored order.
C6_MalformedValueSkipped ==
    [][\A w \in Threads :
         (/\ Handles(w)
          /\ ExactZone(workers[w].data)
          /\ workers[w].data.qtype \in {"MX", "SOA"}
          /\ \E i \in 1..Len(RecordsFor(workers[w].data)) :
               ~WellFormed(workers[w].data.qtype,
                           RecordsFor(workers[w].data)[i]))
           => /\ workers'[w].pc = "send"
              /\ AnswersAre(workers'[w].resp.msg.answers,
                            QName(workers[w].data), workers[w].data.qtype,
                            ValidOnly(workers[w].data.qtype,
                                      RecordsFor(workers[w].data)))
      ]_vars

\* C7: after a start() whose bind failed nothing of it is left -- the
\* running flag is false and the server holds no socket handle and no open
\* socket.
C7_BindFailureLeavesNothing ==
    (caller.pc = "idle" /\ caller.result = "BindFailure")
      => /\ ~running
         /\ sock = 0
         /\ \A s \in SocketIds : sockets[s].state \notin {"open", "bound"}

\* C8: a datagram that fails to decode is dropped -- the thread handling it
\* goes back to the loop test without anything being sent, no thread is ever
\* about to send for such a datagram, and no reply on the wire answers one.
C8_UndecodableDropped ==
    /\ [](/\ \A w \in Threads :
               workers[w].pc = "send" => workers[w].data.ok
          /\ Replied => lastSent.req.ok)
    /\ [][\A w \in Threads :
            (Handles(w) /\ ~workers[w].data.ok)
              => /\ workers'[w].pc = "check"
                 /\ workers'[w].outcome = "dropped"
                 /\ lastSent' = lastSent
         ]_vars

\* A thread of a running server is back at the loop test after dropping an
\* undecodable datagram.
C8_DroppedAndLooping ==
    \E w \in Threads :
      /\ workers[w].pc = "check"
      /\ workers[w].outcome = "dropped"
      /\ running

\* The query names a zone and a type of which the zone holds at least one
\* value, all of them well-formed.
PresentType(d) ==
    /\ ExactZone(d)
    /\ RecordsFor(d) # <<>>
    /\ \A i \in 1..Len(RecordsFor(d)) : WellFormed(d.qtype, RecordsFor(d)[i])

\* The reply is NOERROR with exactly the configured values of the type.
ConfiguredAnswer(d, msg) ==
    /\ msg.rcode = 0
    /\ AnswersAre(msg.answers, QName(d), d.qtype, RecordsFor(d))

\* C9: a query for a configured zone Z and a type T present in Z (T has at
\* least one value, all well-formed) is answered NOERROR with exactly the
\* configured values of T, one answer per value in stored order, each with
\* TTL 300 -- both in the reply the thread builds and in the reply sent.
C9_ConfiguredValuesInOrder ==
    /\ [](Replied /\ PresentType(lastSent.req)
            => ConfiguredAnswer(lastSent.req, lastSent.msg))
    /\ [][\A w \in Threads :
            (Handles(w) /\ PresentType(workers[w].data))
              => /\ workers'[w].pc = "send"
                 /\ ConfiguredAnswer(workers[w].data, workers'[w].resp.msg)
         ]_vars

\* A reply with several answers to a query for a present type was sent.
C9_SeveralValuesAnswered ==
    /\ Replied
    /\ PresentType(lastSent.req)
    /\ Len(lastSent.msg.answers) >= 2

\* The places of the dots of qname after which a configured zone name
\* starts: its proper ancestor suffixes below the root that are zones.
AncestorZones(qname) ==
    {k \in 1..(Len(qname) - 1) :
       qname[k] = Dot /\ SubSeq(qname, k + 1, Len(qname)) \in DOMAIN zones}

\* The longest of them.
NearestAncestor(qname) ==
    LET k == CHOOSE k \in AncestorZones(qname) :
               \A j \in AncestorZones(qname) : k <= j
    IN  SubSeq(qname, k + 1, Len(qname))

\* The query has no exact zone but a configured ancestor zone.
Delegated(d) ==
    d.ok /\ QName(d) \notin DOMAIN zones /\ AncestorZones(QName(d)) # {}

\* What answering d from the zone named name gives.
FromZone(d, name) == AnswerFrom(NewReply(d), zones[name], QName(d), d.qtype)

\* C10: a query with no exact zone and a configured ancestor is answered
\* from the nearest ancestor, the longest matching suffix, and never with
\* NXDOMAIN -- both in the reply the thread builds and in the reply sent.
C10_NearestAncestorAnswers ==
    /\ [](Replied /\ Delegated(lastSent.req)
            => /\ Pack(lastSent.msg) =
                    FromZone(lastSent.req, NearestAncestor(QName(lastSent.req)))
               /\ lastSent.msg.rcode # 3)
    /\ [][\A w \in Threads :
            (/\ Handles(w)
             /\ Delegated(workers[w].data)
             /\ FromZone(workers[w].data,
                         NearestAncestor(QName(workers[w].data))).kind
                  = "bytes")
              => /\ workers'[w].pc = "send"
                 /\ workers'[w].resp =
                      FromZone(workers[w].data,
                               NearestAncestor(QName(workers[w].data)))
                 /\ workers'[w].resp.msg.rcode # 3
         ]_vars

\* A reply with answers was sent to a query below two nested zones.
C10_NestedAncestorsAnswered ==
    /\ Replied
    /\ Delegated(lastSent.req)
    /\ Cardinality(AncestorZones(QName(lastSent.req))) >= 2
    /\ lastSent.msg.answers # <<>>

\* The query has a zone: one of its exact name or a configured ancestor
\* below the root.
HasZone(d) ==
    d.ok /\ (QName(d) \in DOMAIN zones \/ AncestorZones(QName(d)) # {})
\* The query has none.
NoZone(d) == d.ok /\ ~HasZone(d)

\* The name of the zone the query resolves to.
ResolvedName(d) ==
    IF QName(d) \in DOMAIN zones THEN QName(d)
    ELSE NearestAncestor(QName(d))
\* The values the resolved zone holds for a type.
ResolvedRecords(d, qtype) == ZoneGet(zones[ResolvedName(d)], qtype)

\* C11: a query for a name that is no configured zone and has no configured
\* ancestor zone is answered with result code 3 and zero answers -- both in
\* the reply the thread builds and in the reply sent.
C11_NoZoneIsNxdomain ==
    /\ [](Replied /\ NoZone(lastSent.req)
            => /\ lastSent.msg.rcode = 3
               /\ lastSent.msg.answers = <<>>)
    /\ [][\A w \in Threads :
            (Handles(w) /\ NoZone(workers[w].data))
              => /\ workers'[w].pc = "send"
                 /\ workers'[w].resp.msg.rcode = 3
                 /\ workers'[w].resp.msg.answers = <<>>
         ]_vars

\* An NXDOMAIN reply was sent by a server that has zones, for a name that is
\* none of them and below none of them.
C11_NxdomainSent ==
    /\ Replied
    /\ NoZone(lastSent.req)
    /\ Cardinality(DOMAIN zones) >= 2
    /\ lastSent.msg.rcode = 3

\* The query resolves to a zone without a value of the requested type but
\* with at least one CNAME value.
CnameOnly(d) ==
    /\ HasZone(d)
    /\ ResolvedRecords(d, d.qtype) = <<>>
    /\ ResolvedRecords(d, "CNAME") # <<>>

\* The reply is NOERROR and carries one CNAME answer per CNAME value of the
\* resolved zone and nothing else.
CnameReply(d, msg) ==
    /\ msg.rcode = 0
    /\ msg.answers # <<>>
    /\ \A i \in 1..Len(msg.answers) : msg.answers[i].rtype = "CNAME"
    /\ AnswersAre(msg.answers, QName(d), "CNAME", ResolvedRecords(d, "CNAME"))

\* C12: when the resolved zone has no records of the requested type but has
\* a CNAME, the reply carries only CNAME answers: it is not NXDOMAIN, it is
\* not empty, and no record of another type of the zone is in it -- both in
\* the reply the thread builds and in the reply sent.
C12_CnameFallbackOnly ==
    /\ [](Replied /\ CnameOnly(lastSent.req)
            => CnameReply(lastSent.req, lastSent.msg))
    /\ [][\A w \in Threads :
            (Handles(w) /\ CnameOnly(workers[w].data))
              => /\ workers'[w].pc = "send"
                 /\ CnameReply(workers[w].data, workers'[w].resp.msg)
         ]_vars

\* The CNAME answer was sent to an MX query for a zone that holds an A record
\* next to its CNAME.
C12_CnameSentNotA ==
    /\ Replied
    /\ CnameOnly(lastSent.req)
    /\ lastSent.req.qtype = "MX"
    /\ ResolvedRecords(lastSent.req, "A") # <<>>
    /\ lastSent.msg.answers # <<>>

\* The query resolves to a zone without a value of the requested type and
\* without a CNAME value.
NoData(d) ==
    /\ HasZone(d)
    /\ ResolvedRecords(d, d.qtype) = <<>>
    /\ ResolvedRecords(d, "CNAME") = <<>>

\* C13: when the resolved zone, exact or delegated, has no records of the
\* requested type and no CNAME, the reply is NOERROR with zero answers, never
\* NXDOMAIN -- both in the reply the thread builds and in the reply sent.
C13_NoDataIsNoerrorEmpty ==
    /\ [](Replied /\ NoData(lastSent.req)
            => /\ lastSent.msg.rcode = 0
               /\ lastSent.msg.answers = <<>>)
    /\ [][\A w \in Threads :
            (Handles(w) /\ NoData(workers[w].data))
              => /\ workers'[w].pc = "send"
                 /\ workers'[w].resp.msg.rcode = 0
                 /\ workers'[w].resp.msg.answers = <<>>
         ]_vars

\* An empty NOERROR reply was sent to a query answered from an ancestor zone
\* that has values of other types only.
C13_DelegatedNoDataSent ==
    /\ Replied
    /\ NoData(lastSent.req)
    /\ Delegated(lastSent.req)
    /\ DOMAIN zones[ResolvedName(lastSent.req)] # {}
    /\ lastSent.msg.rcode = 0
    /\ lastSent.msg.answers = <<>>

\* The letters of the model that come in two cases.
CasePairs == {<<"a", "A">>, <<"s", "S">>, <<"t", "T">>}
\* Two characters that are equal or the two cases of one letter.
SameLetter(a, b) == a = b \/ <<a, b>> \in CasePairs \/ <<b, a>> \in CasePairs
\* Two query names, label by label, that differ at most in letter case.
SameButCase(n1, n2) ==
    /\ Len(n1) = Len(n2)
    /\ \A i \in 1..Len(n1) :
         /\ Len(n1[i]) = Len(n2[i])
         /\ \A j \in 1..Len(n1[i]) : SameLetter(n1[i][j], n2[i][j])

\* The queries of the same type as d whose name differs from d's in letter
\* case only.
CaseVariants(d) ==
    {e \in AllDatagrams :
       e.ok /\ e.qtype = d.qtype /\ e.qname # d.qname
            /\ SameButCase(e.qname, d.qname)}

\* The response r is what the thread holds after handling: the same result
\* code and answers when it replies, no reply when it does not.
SameResolution(r, worker) ==
    IF worker.pc = "send"
    THEN /\ r.kind = "bytes"
         /\ r.msg.rcode = worker.resp.msg.rcode
         /\ r.msg.answers = worker.resp.msg.answers
    ELSE r.kind # "bytes"

\* C14: query name matching is case-insensitive -- whatever the case of the
\* configured zone names, when a thread has handled a query, every query of
\* the same type whose name differs in letter case only resolves to the same
\* result code and the same answer records.
C14_CaseInsensitive ==
    [][\A w \in Threads :
         (Handles(w) /\ workers[w].data.ok)
           => \A e \in CaseVariants(workers[w].data) :
                SameResolution(HandleQuery(zones, e), workers'[w])
      ]_vars

\* A reply with answers was sent to a query written with capital letters,
\* by a server that has a case variant of it to compare with.
C14_CapitalsAnswered ==
    /\ Replied
    /\ LabelStr(lastSent.req.qname) # QName(lastSent.req)
    /\ CaseVariants(lastSent.req) # {}
    /\ lastSent.msg.answers # <<>>

\* The header of a reply to the request d: the request's id, qr=1, aa=1,
\* ra=0, and result code 0 when a zone or an ancestor zone matched, else 3.
HeaderOf(d) ==
    [id |-> d.id, qr |-> 1, aa |-> 1, ra |-> 0,
     rcode |-> IF HasZone(d) THEN 0 ELSE 3]
\* The header fields of a reply.
Header(msg) ==
    [id |-> msg.id, qr |-> msg.qr, aa |-> msg.aa, ra |-> msg.ra,
     rcode |-> msg.rcode]

\* C15: every reply, the one a thread is about to send and the one sent, has
\* the id of the request it answers, qr=1, aa=1 and ra=0, and result code 0
\* unless no zone and no ancestor zone matched, in which case it is 3.
C15_ReplyHeader ==
    /\ Replied => Header(lastSent.msg) = HeaderOf(lastSent.req)
    /\ \A w \in Threads :
         workers[w].pc = "send"
           => Header(workers[w].resp.msg) = HeaderOf(workers[w].data)

\* Replies of both result codes are in the system: one sent to the second
\* client, another about to be sent.
C15_BothCodesSeen ==
    /\ Replied
    /\ lastSent.msg.id = 2
    /\ lastSent.msg.rcode = 3
    /\ \E w \in Threads :
         /\ workers[w].pc = "send"
         /\ workers[w].resp.msg.id = 1
         /\ workers[w].resp.msg.rcode = 0

(***************************************************************************)
(* Properties of scoped acquisition.                                       *)
(***************************************************************************)
\* The with statement has been left after its body ran.
LeftWith == caller.scope \in {"left_normal", "left_raised"}

\* C16: on exit from a with block, whether the body completed or raised,
\* stop() has run -- the call before the exit returned from stop(), the
\* running flag is false, the server holds no socket and no bound socket is
\* left open.
C16_WithExitStops ==
    LeftWith
      => /\ caller.result = "stopped"
         /\ ~running
         /\ sock = 0
         /\ \A s \in SocketIds : sockets[s].state # "bound"

\* A with block whose body raised has been left, its server started and its
\* socket closed.
C16_LeftAfterBodyRaised ==
    /\ caller.scope = "left_raised"
    /\ caller.result = "stopped"
    /\ nthreads > 0
    /\ \E s \in SocketIds : sockets[s].state = "closed"

(***************************************************************************)
(* Properties of the serve loop.                                           *)
(***************************************************************************)
\* The datagram decodes and resolves: _handle_query returns a reply for it.
Answerable(d) == HandleQuery(zones, d).kind = "bytes"

\* The thread w, holding a reply, takes its step: the sendto call.
Sends(w) == workers[w].pc = "send" /\ workers'[w] # workers[w]

\* What sendto puts on the wire for the thread w.
ReplyOf(w) ==
    [by |-> w, via |-> sock, to |-> workers[w].addr,
     req |-> workers[w].data, msg |-> workers[w].resp.msg]

\* The thread w leaves the handling of an answerable datagram holding that
\* datagram, its sender and its reply, about to send.
HandledToSend(w) ==
    (Handles(w) /\ Answerable(workers[w].data))
      => /\ workers'[w].pc = "send"
         /\ workers'[w].data = workers[w].data
         /\ workers'[w].addr = AddrOf(workers[w].data)
         /\ workers'[w].resp = HandleQuery(zones, workers[w].data)

\* The server holds a socket that is not closed: a sendto on it raises only
\* if the operating system refuses the send.
SocketUsable == IF sock = 0 THEN FALSE ELSE sockets[sock].state # "closed"

\* C17 as stated: each datagram that decodes and resolves produces exactly
\* one reply, sent to the address it came from before the thread receives
\* the next datagram -- the thread holding the reply has no step but the one
\* that puts it on the wire and returns to the loop test (a send the
\* operating system refuses on a usable socket is not held against it).
C17_ExactlyOneReply ==
    [][\A w \in Threads :
         /\ HandledToSend(w)
         /\ Sends(w)
              => /\ workers'[w].pc = "check"
                 /\ IF workers'[w].outcome = "sent"
                    THEN lastSent' = ReplyOf(w)
                    ELSE SocketUsable
      ]_vars

\* C17 amended: each datagram that decodes and resolves leads to exactly one
\* sendto call, with its reply and the address it came from, before the
\* thread receives the next datagram; the reply reaches the wire once when
\* the call succeeds and not at all when it raises, which it does whenever
\* the server's socket is None or closed; and nothing else reaches the wire.
C17_OneSendAttempt ==
    [][/\ \A w \in Threads :
            /\ HandledToSend(w)
            /\ Sends(w)
                 => /\ workers'[w].pc = "check"
                    /\ workers'[w].outcome \in {"sent", "send_error"}
                    /\ IF workers'[w].outcome = "sent"
                       THEN lastSent' = ReplyOf(w)
                       ELSE lastSent' = lastSent
                    /\ ~SocketUsable => workers'[w].outcome = "send_error"
       /\ lastSent' # lastSent
            => \E w \in Threads : Sends(w) /\ workers'[w].outcome = "sent"
      ]_vars

\* The second client's query has been answered at its address, and a thread
\* is back at the loop test after a send that raised.
C17_SentAndSendFailed ==
    /\ Replied
    /\ lastSent.to = "c2"
    /\ lastSent.req.id = 2
    /\ \E w \in Threads :
         workers[w].pc = "check" /\ workers[w].outcome = "send_error"

\* The thread w holds a datagram or its reply.
Processing(w) == workers[w].pc \in {"handle", "send"}

\* C18: cancellation is cooperative and eventually observed -- for a thread
\* whose receive calls and whose handling of a datagram all return, a
\* cleared running flag leads to the thread having left its loop or to the
\* flag being set again by a later start(); and a thread holding a datagram
\* is never ended or moved by anyone else: its next place is the sending of
\* the reply or the loop test.
C18_CooperativeCancel ==
    /\ \A w \in Threads :
         []<>(workers[w].pc \notin {"blocked", "handle"})
           => ((~running /\ Live(w)) ~> (running \/ workers[w].pc = "done"))
    /\ [][\A w \in Threads :
            Processing(w)
              => workers'[w].pc \in {"handle", "send", "check"}
         ]_vars

\* stop() has returned with the thread it could not join still holding a
\* datagram: the thread is left to finish on its own.
C18_StoppedWhileProcessing ==
    /\ caller.pc = "idle"
    /\ caller.result = "stopped"
    /\ ~running
    /\ \E w \in Threads : Processing(w)

(***************************************************************************)
(* Properties of the lifecycle order.                                      *)
(***************************************************************************)
\* The order of the lines of start() and stop(): from each place of the
\* caller, the places its next step may lead to. start() returns from its
\* running check and from its last line, and leaves from bind() when that
\* raises; stop() returns after clearing the socket, or from the socket test
\* when there is none.
LineOrder ==
    {<<"idle", "start_50">>, <<"start_50", "idle">>,
     <<"start_50", "start_53">>, <<"start_53", "start_55">>,
     <<"start_55", "start_56">>, <<"start_55", "idle">>,
     <<"start_56", "start_58">>, <<"start_58", "start_59">>,
     <<"start_59", "idle">>,
     <<"idle", "stop_64">>, <<"stop_64", "stop_65">>,
     <<"stop_65", "stop_67">>, <<"stop_67", "stop_69">>,
     <<"stop_67", "idle">>, <<"stop_69", "idle">>}

\* A socket that is not closed becomes closed.
Closes(s) == sockets[s].state # "closed" /\ sockets'[s].state = "closed"

\* The server's phase, Running, comes with a socket that is bound and has
\* its receive timeout; past the first line of stop() the flag is clear; a
\* thread is about to be spawned only with the flag set.
PhaseInvariant ==
    /\ running => /\ sock # 0
                  /\ IF sock = 0 THEN FALSE
                     ELSE sockets[sock].state = "bound" /\ sockets[sock].timeout
    /\ caller.pc \in {"stop_65", "stop_67", "stop_69"} => ~running
    /\ caller.pc = "start_59" => running
    /\ caller.pc \in {"start_53", "start_55", "start_56", "start_58"}
         => ~running

\* C19: the lifecycle keeps its order -- the running flag becomes true only
\* in start(), on a socket that was created, bound and given its timeout,
\* and before the thread is spawned; a thread is spawned only with the flag
\* set; the flag is cleared only by the first line of stop(), before the
\* join; a socket is closed only after the join, and the handle is cleared
\* only after the close; and the caller moves through the lines of start()
\* and stop() in their order, skipping none.
C19_LifecycleOrder ==
    /\ []PhaseInvariant
    /\ [][/\ (~running /\ running')
              => /\ caller.pc = "start_58"
                 /\ IF sock = 0 THEN FALSE
                    ELSE /\ sockets[sock].state = "bound"
                         /\ sockets[sock].timeout
                 /\ UNCHANGED <<sock, sockets, thread, nthreads, workers>>
          /\ nthreads' # nthreads
              => /\ caller.pc = "start_59"
                 /\ running /\ running'
                 /\ nthreads' = nthreads + 1
                 /\ thread' = nthreads'
          /\ (running /\ ~running')
              => /\ caller.pc = "stop_64"
                 /\ caller'.pc = "stop_65"
                 /\ UNCHANGED <<sock, sockets, thread>>
          /\ \A s \in SocketIds :
               Closes(s) => /\ caller.pc = "stop_67"
                            /\ s = sock
                            /\ ~running
          /\ (sock # 0 /\ sock' = 0)
              => /\ caller.pc = "stop_69"
                 /\ sockets[sock].state = "closed"
          /\ caller'.pc # caller.pc
              => <<caller.pc, caller'.pc>> \in LineOrder
       ]_vars

\* A whole cycle was walked: the server was started, served, and was stopped
\* with its thread joined and its socket closed.
C19_CycleCompleted ==
    /\ caller.pc = "idle"
    /\ caller.result = "stopped"
    /\ caller.prev = "started"
    /\ Stopped
    /\ IF thread = 0 THEN FALSE ELSE workers[thread].pc = "done"
    /\ Replied

(***************************************************************************)
(* Properties of the zone store.                                           *)
(***************************************************************************)
\* The stores the constructor builds from the configurations.
BuiltStores == {NormalizeZones(c) : c \in ScopedConfigs}

\* C20: the zone store is read-only after construction -- no step of
\* start(), stop(), __enter__, __exit__ or a serving thread, delegation and
\* CNAME fallback included, adds, removes or changes a zone or a record
\* value: in every state the store is the one the constructor built.
C20_ZonesReadOnly ==
    /\ [](zones \in BuiltStores)
    /\ [][zones' = zones]_vars

\* While __exit__ stops the server, the latest reply came from the CNAME
\* fallback and a thread holds a reply built from an ancestor zone.
C20_FallbacksServed ==
    /\ InStop
    /\ caller.scope \in {"exit_normal", "exit_raised"}
    /\ Replied
    /\ CnameOnly(lastSent.req)
    /\ \E w \in Threads :
         workers[w].pc = "send" /\ Delegated(workers[w].data)

\* A name is normalized: it ends in a dot and holds no capital letter.
Normalized(name) ==
    /\ EndsWithDot(name)
    /\ \A i \in 1..Len(name) : \A p \in CasePairs : name[i] # p[2]

\* The zone names callers configure.
RawNames ==
    UNION {{c[i].name : i \in 1..Len(c)} : c \in ResolveConfigs}

\* C21: every key of the zone store is lowercase and ends in a dot, whatever
\* the configuration was, and normalizing a normalized name -- a key of the
\* store, or a configured name normalized once -- gives the name back.
C21_KeysNormalized ==
    /\ \A k \in DOMAIN zones : Normalized(k) /\ NormalizeName(k) = k
    /\ \A n \in RawNames :
         /\ Normalized(NormalizeName(n))
         /\ NormalizeName(NormalizeName(n)) = NormalizeName(n)

\* A store built from names with capitals, with and without the final dot,
\* has answered a query.
C21_MixedNamesStored ==
    /\ Replied
    /\ \E n \in RawNames :
         /\ ~Normalized(n) /\ EndsWithDot(n)
         /\ NormalizeName(n) \in DOMAIN zones
    /\ \E n \in RawNames :
         /\ ~Normalized(n) /\ ~EndsWithDot(n)
         /\ NormalizeName(n) \in DOMAIN zones

\* The query takes the CNAME fallback: its zone holds no value of the
\* requested type and has a CNAME entry.
CnameFallback(d) ==
    /\ HasZone(d)
    /\ ResolvedRecords(d, d.qtype) = <<>>
    /\ "CNAME" \in DOMAIN zones[ResolvedName(d)]

\* The CNAME values of the query's zone that name a configured zone.
TargetZones(d) ==
    {ResolvedRecords(d, "CNAME")[i].items[1] :
       i \in 1..Len(ResolvedRecords(d, "CNAME"))} \cap DOMAIN zones

\* The record is one the zone named target holds: a value of the record's
\* type in that zone.
TakenFrom(rr, target) ==
    /\ rr.rtype \in DOMAIN zones[target]
    /\ \E j \in 1..Len(zones[target][rr.rtype]) :
         ValueOf(rr) = Canonical(rr.rtype, zones[target][rr.rtype][j])

\* The reply carries the CNAME values of the query's zone and stops there.
SingleHop(d, msg) ==
    LET values == ResolvedRecords(d, "CNAME")
    IN  /\ Len(msg.answers) = Len(values)
        /\ \A i \in 1..Len(msg.answers) :
             /\ msg.answers[i].rtype = "CNAME"
             /\ d.qtype # "CNAME" => msg.answers[i].rtype # d.qtype
             /\ msg.answers[i].ttl = 300
             /\ msg.answers[i].rdata = values[i].items
             /\ \A target \in TargetZones(d) :
                  ~TakenFrom(msg.answers[i], target)

\* C22: the CNAME chase is single-hop -- in the CNAME fallback the reply has
\* exactly one answer per CNAME value of the resolved zone, in stored order,
\* each of type CNAME and not of the requested type, with TTL 300, and it
\* holds no record of a CNAME target's own zone, also when the target is a
\* configured zone -- both in the reply the thread builds and in the reply
\* sent.
C22_SingleHopChase ==
    /\ [](Replied /\ CnameFallback(lastSent.req)
            => SingleHop(lastSent.req, lastSent.msg))
    /\ [][\A w \in Threads :
            (Handles(w) /\ CnameFallback(workers[w].data))
              => /\ workers'[w].pc = "send"
                 /\ SingleHop(workers[w].data, workers'[w].resp.msg)
         ]_vars

\* The fallback answered an A query with two CNAME values whose targets
\* are configured zones, one of them holding A records.
C22_TargetZoneNotFollowed ==
    /\ Replied
    /\ CnameFallback(lastSent.req)
    /\ lastSent.req.qtype = "A"
    /\ Cardinality(TargetZones(lastSent.req)) = 2
    /\ \E target \in TargetZones(lastSent.req) :
         ZoneGet(zones[target], "A") # <<>>
    /\ Len(lastSent.msg.answers) = 2

\* The root zone is configured, and the query is for another name whose
\* only configured ancestor it is.
RootOnly(d) == NoZone(d) /\ <<Dot>> \in DOMAIN zones

\* The zone the lookup selects for the query, if any, is the zone of its
\* exact name or of its nearest proper ancestor below the root.
SelectsBelowRoot(d) ==
    LET look == LookupZone(zones, QName(d))
    IN  /\ look.found <=> HasZone(d)
        /\ look.found => look.zone = zones[ResolvedName(d)]
        /\ (look.found /\ QName(d) # <<Dot>>) => ResolvedName(d) # <<Dot>>

\* C24: the delegation walk stops short of the root -- the zone selected
\* for a name with no exact zone is that of a proper ancestor between the
\* immediate parent and the top-level label, a configured root zone "." is
\* never selected as the delegated zone, and a name whose only configured
\* ancestor is the root gets NXDOMAIN with no answers.
C24_WalkStopsBelowRoot ==
    /\ [](Replied
            => /\ SelectsBelowRoot(lastSent.req)
               /\ RootOnly(lastSent.req)
                    => /\ lastSent.msg.rcode = 3
                       /\ lastSent.msg.answers = <<>>)
    /\ [][\A w \in Threads :
            (Handles(w) /\ workers[w].data.ok)
              => /\ SelectsBelowRoot(workers[w].data)
                 /\ RootOnly(workers[w].data)
                      => /\ workers'[w].pc = "send"
                         /\ workers'[w].resp.msg.rcode = 3
                         /\ workers'[w].resp.msg.answers = <<>>
         ]_vars

\* NXDOMAIN was sent to an A query for a name two labels below a root zone
\* that holds an A record and is the name's only configured ancestor.
C24_RootNotDelegated ==
    /\ Replied
    /\ RootOnly(lastSent.req)
    /\ lastSent.req.qtype = "A"
    /\ Len(lastSent.req.qname) = 2
    /\ ZoneGet(zones[<<Dot>>], "A") # <<>>
    /\ lastSent.msg.rcode = 3

(***************************************************************************)
(* Properties of the state the caller and the threads share.               *)
(***************************************************************************)
\* The step writes the running flag, the socket handle or a socket.
WritesShared == running' # running \/ sock' # sock \/ sockets' # sockets

\* The lines of start() and stop() that write them.
WritingLines ==
    {"start_53", "start_55", "start_56", "start_58",
     "stop_64", "stop_67", "stop_69"}

\* C23: the threads only read the shared state -- every step that writes
\* the running flag, the socket handle or a socket is a step of the caller
\* at a writing line of start() or stop() and moves no thread; while the
\* flag is set the only such step is stop() clearing it, so a start()
\* issued on a running server writes nothing.
C23_WorkerOnlyReads ==
    [][WritesShared
         => /\ workers' = workers
            /\ lastSent' = lastSent
            /\ caller.pc \in WritingLines
            /\ caller'.pc # caller.pc
            /\ running
                 => /\ caller.pc = "stop_64"
                    /\ ~running'
                    /\ sock' = sock
                    /\ sockets' = sockets
      ]_vars

\* A start() on a running server has returned without effect while the
\* thread of the session, having sent a reply, waits for the next datagram
\* on the session's socket.
C23_ServedWhileRunning ==
    /\ running
    /\ caller.pc = "idle"
    /\ caller.result = "noop"
    /\ Replied
    /\ IF thread = 0 THEN FALSE
       ELSE /\ workers[thread].pc = "blocked"
            /\ workers[thread].sk = sock
            /\ lastSent.by = thread

(***************************************************************************)
(* Properties of sessions: a session is one start() that spawned a thread, *)
(* up to the return of the stop() that follows it.                         *)
(***************************************************************************)
\* The thread w puts a reply on the wire.
PutsOnWire(w) == Sends(w) /\ workers'[w].outcome = "sent"

\* The session of the thread w is open: w is the thread the latest start()
\* spawned, and the stop() that ends its session has not returned -- the
\* server is running and the caller is not inside a start() that found it
\* stopped, or the caller is inside the first stop() after that start().
SessionOpen(w) ==
    /\ w = thread
    /\ \/ running /\ caller.pc \in {"idle", "start_50", "stop_64"}
       \/ InStop /\ caller.prev \in {"started", "noop"}

\* C26 as stated: once stop() has returned the thread of the stopped
\* session sends no reply, whether or not the join timed out, and a later
\* start() does not let it send through the new socket -- a reply is put on
\* the wire only by the thread of an open session.
C26_StoppedWorkerSilent ==
    [][\A w \in Threads : PutsOnWire(w) => SessionOpen(w)]_vars

\* Every thread spawned so far has returned from _serve.
AllExited == \A w \in 1..nthreads : workers[w].pc = "done"

\* The server is running on the socket created last, bound and with its
\* timeout set, no other socket is bound, and the thread spawned last is the
\* one live thread.
FreshlyRunning ==
    /\ running
    /\ sock = nsock
    /\ sockets[sock] = [state |-> "bound", reuse |-> TRUE, timeout |-> TRUE]
    /\ \A s \in SocketIds : s # sock => sockets[s].state # "bound"
    /\ thread = nthreads
    /\ \A w \in Threads : Live(w) <=> w = thread

\* C27: the lifecycle is re-enterable -- when a start() after an earlier
\* session comes to spawn and the thread of that session, like every thread
\* before it, has exited, it returns with the server running on a freshly
\* bound socket and exactly one live thread, a new one: the thread
\* reference kept from the earlier session has no effect; and the replies
\* sent while that thread is the only live one come from it, through that
\* socket.
C27_Reenterable ==
    /\ [][(caller.pc = "start_59" /\ caller'.pc = "idle"
             /\ thread # 0 /\ AllExited)
            => /\ caller'.result = "started"
               /\ thread' # thread
               /\ workers'[thread] = workers[thread]
               /\ FreshlyRunning'
         ]_vars
    /\ [][\A w \in Threads :
            (/\ PutsOnWire(w)
             /\ running /\ caller.pc = "idle"
             /\ \A v \in Threads : v # w => ~Live(v))
              => /\ w = thread
                 /\ FreshlyRunning
                 /\ lastSent' = ReplyOf(w)
         ]_vars

\* In the second session, begun after the thread of the first had exited in
\* time, the new thread has answered a query through the new socket.
C27_AnsweredAgain ==
    /\ running
    /\ caller.pc = "idle"
    /\ nthreads = 2
    /\ workers[1].pc = "done"
    /\ thread = 2
    /\ lastSent.by = 2
    /\ lastSent.via = sock
    /\ sock = nsock
    /\ workers[2].outcome = "sent"

(***************************************************************************)
(* Properties of the evaluation harness.                                   *)
(***************************************************************************)
\* C25 as stated: dns_tool_used returns CORRECT if doggo or dig was used in
\* the extracted commands and INCORRECT otherwise, for every trace, also
\* one in which only nslookup or host was used.
C25_CorrectOrIncorrect ==
    harness.pc = "scored"
      => harness.score.value =
           IF \/ CheckToolInCommands(harness.commands, "doggo")
              \/ CheckToolInCommands(harness.commands, "dig")
           THEN CORRECT ELSE INCORRECT

\* No call of the harness is in progress.
HarnessQuiet == harness.pc = "idle" /\ caller.pc = "idle"

\* The server the handle refers to is running: its flag is set, its socket
\* is bound and its thread is alive.
HandleRunning ==
    /\ running
    /\ IF sock = 0 THEN FALSE ELSE sockets[sock].state = "bound"
    /\ IF thread = 0 THEN FALSE ELSE Live(thread)

\* C28 as stated: after any sequence of start_dns_server() and
\* stop_dns_server() calls, one in which start() raised a bind failure
\* included, the module-level handle is non-None only if the server it
\* refers to is running, and at most one server is started at a time: at
\* most one socket is bound.
C28_HandleOnlyIfRunning ==
    HarnessQuiet
      => /\ harness.server # "None" => HandleRunning
         /\ Cardinality({s \in SocketIds : sockets[s].state = "bound"}) <= 1

(***************************************************************************)
(* Properties of the answer section.                                       *)
(***************************************************************************)
\* The query resolves to a zone that holds a value of the requested type.
HasRequestedType(d) == HasZone(d) /\ ResolvedRecords(d, d.qtype) # <<>>

\* Every answer of the reply is of the query's type, there are no more of
\* them than the zone holds values of that type, and a CNAME answer is
\* there only for a CNAME query.
RequestedTypeOnly(d, msg) ==
    /\ Len(msg.answers) <= Len(ResolvedRecords(d, d.qtype))
    /\ \A i \in 1..Len(msg.answers) :
         /\ msg.answers[i].rtype = d.qtype
         /\ msg.answers[i].rtype = "CNAME" => d.qtype = "CNAME"

\* A CNAME answer is in the reply only if the query is for CNAME or its
\* zone holds no value of the requested type.
CnameOnlyWhenDue(d, msg) ==
    (\E i \in 1..Len(msg.answers) : msg.answers[i].rtype = "CNAME")
      => /\ HasZone(d)
         /\ d.qtype = "CNAME" \/ ResolvedRecords(d, d.qtype) = <<>>

\* C29: when the resolved zone has at least one record of the requested
\* type, the reply holds answers of that type only -- the zone's CNAME
\* values are not added alongside -- and CNAME answers appear only when the
\* requested type is CNAME or has no records; both in the reply the thread
\* builds and in the reply sent.
C29_RequestedTypeOnly ==
    /\ [](Replied
            => /\ CnameOnlyWhenDue(lastSent.req, lastSent.msg)
               /\ HasRequestedType(lastSent.req)
                    => RequestedTypeOnly(lastSent.req, lastSent.msg))
    /\ [][\A w \in Threads :
            (Handles(w) /\ workers'[w].pc = "send")
              => /\ CnameOnlyWhenDue(workers[w].data, workers'[w].resp.msg)
                 /\ HasRequestedType(workers[w].data)
                      => RequestedTypeOnly(workers[w].data,
                                           workers'[w].resp.msg)
         ]_vars

\* An A query for the zone that holds both an A record and a CNAME was
\* answered with the A record alone.
C29_AOnlyNextToCname ==
    /\ Replied
    /\ ExactZone(lastSent.req)
    /\ lastSent.req.qtype = "A"
    /\ ResolvedRecords(lastSent.req, "A") # <<>>
    /\ ResolvedRecords(lastSent.req, "CNAME") # <<>>
    /\ Len(lastSent.msg.answers) = 1
    /\ lastSent.msg.answers[1].rtype = "A"

\* The query name in lowercase with its final dot.
OwnerOf(d) ==
    LET name == LabelStr(d.qname)
    IN  [i \in 1..Len(name) |->
           IF \E p \in CasePairs : p[2] = name[i]
           THEN (CHOOSE p \in CasePairs : p[2] = name[i])[1]
           ELSE name[i]]

\* Every answer of the reply is under the query's name, and under
\* delegation none is under the name of the zone the data came from.
OwnedByQuery(d, msg) ==
    \A i \in 1..Len(msg.answers) :
      /\ msg.answers[i].name = OwnerOf(d)
      /\ Normalized(msg.answers[i].name)
      /\ Delegated(d) => msg.answers[i].name # ResolvedName(d)

\* C30: every answer record of a reply has as owner name the lowercased,
\* dot-terminated query name, never the name of the zone the data came from:
\* under delegation, the CNAME fallback from an ancestor included, the
\* ancestor's records are returned under the queried name -- both in the
\* reply the thread builds and in the reply sent.
C30_OwnerIsQueryName ==
    /\ [](Replied => OwnedByQuery(lastSent.req, lastSent.msg))
    /\ [][\A w \in Threads :
            (Handles(w) /\ workers'[w].pc = "send")
              => OwnedByQuery(workers[w].data, workers'[w].resp.msg)
         ]_vars

\* A query in capitals below a zone was answered with the ancestor's CNAME
\* values under the queried name, and a thread holds a reply with the A
\* records of another ancestor.
C30_AncestorDataUnderQueryName ==
    /\ Replied
    /\ Delegated(lastSent.req)
    /\ CnameOnly(lastSent.req)
    /\ lastSent.msg.answers # <<>>
    /\ lastSent.msg.answers[1].name # ResolvedName(lastSent.req)
    /\ \E w \in Threads :
         /\ workers[w].pc = "send"
         /\ Delegated(workers[w].data)
         /\ LabelStr(workers[w].data.qname) # OwnerOf(workers[w].data)
         /\ workers[w].resp.msg.answers # <<>>
         /\ workers[w].resp.msg.answers[1].rtype = "A"

====
